---- MODULE Spec2Model ----
(***************************************************************************)
(* Model of the ClearBlade Modbus proxy data layer: the register blocks of *)
(* store.py (CbModbusSequentialDataBlock, CbModbusSparseDataBlock), the    *)
(* bridge functions read_collection_data / write_collection_data, and the  *)
(* slave and server contexts of context.py.                                *)
(*                                                                         *)
(* Python values are modelled as follows.  A list is a sequence (index i   *)
(* of the list is element i+1 of the sequence).  A dict is a function.     *)
(* None is NoTimestamp for a timestamp and NoAddress for a descriptor      *)
(* address.  A raised exception is the "err" field of an operator's        *)
(* result ("" when the call returns).                                      *)
(***************************************************************************)
EXTENDS Integers, Sequences, FiniteSets, TLC

VARIABLES
    zero_mode,   \* ClearBladeModbusProxySlaveContext.zero_mode
    sparse,      \* ClearBladeModbusProxySlaveContext.sparse
    slave_id,    \* ClearBladeModbusProxySlaveContext.slave_id
    store,       \* ClearBladeModbusProxySlaveContext.store: key -> block
    remote,      \* rows of the ClearBlade data collection
    last,        \* the last request: its arguments, outcome and remote calls
    steps,       \* number of requests served so far
    pc,          \* "config" before construction, then "serving" or "failed"
    config_file, \* the template text a slave context is built from
    descriptors, \* the registers list _parse_config ended with
    config_rows, \* the configuration rows a server context is built from
    server       \* ClearBladeModbusProxyServerContext: unit id -> slave context

vars == <<zero_mode, sparse, slave_id, store, remote, last, steps,
          pc, config_file, descriptors, config_rows, server>>

-----------------------------------------------------------------------------
(* Bounds of the model *)

MaxAddr == 2        \* protocol addresses are 0..MaxAddr
MaxCount == 3       \* request counts are 1..MaxCount
MaxSteps == 2       \* requests and field reports per behaviour
MaxRegLines == 3    \* register-definition lines per template
MaxRows == 3        \* configuration rows per server context

-----------------------------------------------------------------------------
(* constants.py *)

TYPE_HOLDING_REGISTER == "hr"
TYPE_INPUT_REGISTER == "ir"
TYPE_DISCRETE_INPUT == "di"
TYPE_COIL == "co"
REGISTER_TYPES ==
    {TYPE_HOLDING_REGISTER, TYPE_INPUT_REGISTER, TYPE_DISCRETE_INPUT, TYPE_COIL}

(* Python's None, for a timestamp and for a descriptor address *)
NoTimestamp == 0
NoAddress == -1

(* read_collection_data's default fill value *)
FILL_VALUE == 0

-----------------------------------------------------------------------------
(* Python list semantics *)

Min2(a, b) == IF a < b THEN a ELSE b
Max2(a, b) == IF a > b THEN a ELSE b

(* A slice bound i on a list of length n: negative bounds count from the end,
   and every bound is clamped to 0..n. *)
PyBound(i, n) == IF i < 0 THEN Max2(i + n, 0) ELSE Min2(i, n)

(* L[a:b] *)
PySlice(L, a, b) ==
    LET s == PyBound(a, Len(L))
        e == PyBound(b, Len(L))
    IN  IF e <= s THEN <<>> ELSE SubSeq(L, s + 1, e)

(* L[a:b] = vals *)
PySliceAssign(L, a, b, vals) ==
    LET s == PyBound(a, Len(L))
        e == Max2(PyBound(b, Len(L)), s)
    IN  SubSeq(L, 1, s) \o vals \o SubSeq(L, e + 1, Len(L))

(* L.insert(i, x) for i >= 0 *)
PyInsert(L, i, x) ==
    LET s == Min2(i, Len(L))
    IN  SubSeq(L, 1, s) \o <<x>> \o SubSeq(L, s + 1, Len(L))

(* range(a, b) as a sequence *)
PyRange(a, b) == [k \in 1..Max2(b - a, 0) |-> a + k - 1]

(* [x] * n *)
Repeat(x, n) == [k \in 1..Max2(n, 0) |-> x]

-----------------------------------------------------------------------------
(* The remote store (the ClearBlade data collection) and the bridge, store.py.
   A row is a record with the columns ip_address, slave_id, register_type,
   register_address, register_data and timestamp.  The collection is keyed:
   at most one row per (ip_address, slave_id, register_type, register_address). *)

(* The slave context as the bridge reads it: ip_proxy, slave_id, sparse *)
Ctx(ip, sid, sp) == [ip_proxy |-> ip, slave_id |-> sid, sparse |-> sp]

(* The Query built by read_collection_data *)
ReadQuery(ctx, register_type, address, count) ==
    [op |-> "query", ip_address |-> ctx.ip_proxy, slave_id |-> ctx.slave_id,
     register_type |-> register_type, address |-> address, count |-> count,
     data |-> 0]

(* The Query and change set built by write_collection_data *)
WriteQuery(ctx, register_type, address, data) ==
    [op |-> "update", ip_address |-> ctx.ip_proxy, slave_id |-> ctx.slave_id,
     register_type |-> register_type, address |-> address, count |-> 1,
     data |-> data]

(* a query without the equalTo on the unit id *)
RowMatchesAnyUnit(r, q) ==
    /\ r.ip_address = q.ip_address
    /\ r.register_type = q.register_type
    /\ IF q.count > 1
       THEN r.register_address >= q.address /\ r.register_address < q.address + q.count
       ELSE r.register_address = q.address

(* Whether a row satisfies a query: equalTo on the three identity columns, and
   on the address either the range (count > 1) or equality. *)
RowMatches(r, q) ==
    /\ r.ip_address = q.ip_address
    /\ r.slave_id = q.slave_id
    /\ r.register_type = q.register_type
    /\ IF q.count > 1
       THEN r.register_address >= q.address /\ r.register_address < q.address + q.count
       ELSE r.register_address = q.address

(* collection.getItems(query) *)
GetItems(rows, q) == {r \in rows : RowMatches(r, q)}

(* an update applied to every row of the collection *)
UpdateItemsAll(rows, q) == {[r EXCEPT !.register_data = q.data] : r \in rows}

(* collection.updateItems(query, {register_data: data}) *)
UpdateItems(rows, q) ==
    {IF RowMatches(r, q) THEN [r EXCEPT !.register_data = q.data] ELSE r : r \in rows}

(* sorted(rows, key=register_address) *)
RECURSIVE SortedByAddress(_)
SortedByAddress(S) ==
    IF S = {} THEN <<>>
    ELSE LET m == CHOOSE r \in S : \A q \in S : r.register_address <= q.register_address
         IN  <<m>> \o SortedByAddress(S \ {m})

(* The loop of read_collection_data for a non-sparse context.  reg_list is
   indexed by the absolute address addr; a gap inserts a row holding only
   register_data, whose timestamp is then read. fill is <<v>> or <<>> (None). *)
RECURSIVE SeqReadLoop(_, _, _, _, _, _)
SeqReadLoop(reg_list, addr, stop, fill, values, timestamps) ==
    IF addr >= stop
    THEN [err |-> "", values |-> values, timestamps |-> timestamps]
    ELSE IF addr >= Len(reg_list)
    THEN [err |-> "IndexError", values |-> values, timestamps |-> timestamps]
    ELSE IF "register_address" \notin DOMAIN reg_list[addr + 1]
    THEN [err |-> "KeyError", values |-> values, timestamps |-> timestamps]
    ELSE IF reg_list[addr + 1].register_address /= addr /\ fill = <<>>
    THEN [err |-> "ParameterException", values |-> values, timestamps |-> timestamps]
    ELSE LET filled == IF reg_list[addr + 1].register_address /= addr
                       THEN PyInsert(reg_list, addr, [register_data |-> fill[1]])
                       ELSE reg_list
             row == filled[addr + 1]
         IN  IF "timestamp" \notin DOMAIN row
             THEN [err |-> "KeyError", values |-> Append(values, row.register_data),
                   timestamps |-> timestamps]
             ELSE SeqReadLoop(filled, addr + 1, stop, fill,
                              Append(values, row.register_data),
                              Append(timestamps, row.timestamp))

(* read_collection_data(context, register_type, address, count, fill) *)
read_collection_data(rows, ctx, register_type, address, count, fill) ==
    LET query == ReadQuery(ctx, register_type, address, count)
        items == GetItems(rows, query)
        reg_list == SortedByAddress(items)
        addrs == {r.register_address : r \in items}
        rowAt(a) == CHOOSE r \in items : r.register_address = a
        seq == SeqReadLoop(reg_list, address, address + count, fill, <<>>, <<>>)
    IN  IF ctx.sparse
        THEN [err |-> "", query |-> query,
              values |-> [a \in addrs |-> rowAt(a).register_data],
              timestamps |-> [a \in addrs |-> rowAt(a).timestamp]]
        ELSE [err |-> seq.err, query |-> query,
              values |-> seq.values, timestamps |-> seq.timestamps]

(* write_collection_data(context, register_type, address, data) *)
write_collection_data(rows, ctx, register_type, address, data) ==
    UpdateItems(rows, WriteQuery(ctx, register_type, address, data))

(* The rows after a sequence of write_collection_data calls *)
RECURSIVE ApplyWrites(_, _)
ApplyWrites(rows, calls) ==
    IF calls = <<>> THEN rows
    ELSE ApplyWrites(UpdateItems(rows, Head(calls)), Tail(calls))

-----------------------------------------------------------------------------
(* Register blocks, store.py.  A block is a record
     kind          "seq" | "sparse" | "none" (the store entry None)
     register_type
     address       the base address (ModbusSequentialDataBlock.address)
     values        a list (seq) or a dict address -> value (sparse)
     timestamps    a list (seq) or a dict address -> timestamp (sparse)      *)

NoBlock ==
    [kind |-> "none", register_type |-> "", address |-> 0,
     values |-> <<>>, timestamps |-> <<>>]

(* read_collection_data's fill argument as getValues passes it: the default 0 *)
DefaultFill == <<FILL_VALUE>>

(* CbModbusSequentialDataBlock.__init__: ModbusSequentialDataBlock.__init__
   reads values[0] for the default value, then one timestamp slot is made for
   each i in range(0, len(values) - 1). *)
SeqBlockInit(register_type, address, values) ==
    IF values = <<>>
    THEN [err |-> "IndexError", block |-> NoBlock]
    ELSE IF register_type \notin REGISTER_TYPES
    THEN [err |-> "ParameterException", block |-> NoBlock]
    ELSE [err |-> "",
          block |-> [kind |-> "seq", register_type |-> register_type,
                     address |-> address, values |-> values,
                     timestamps |-> Repeat(NoTimestamp, Len(values) - 1)]]

(* CbModbusSparseDataBlock.__init__: values is the dict address -> value; one
   timestamp entry per key.  address is the first key of the dict. *)
SparseBlockInit(register_type, values) ==
    IF register_type \notin REGISTER_TYPES
    THEN [err |-> "ParameterException", block |-> NoBlock]
    ELSE [err |-> "",
          block |-> [kind |-> "sparse", register_type |-> register_type,
                     address |-> CHOOSE a \in DOMAIN values :
                                     \A b \in DOMAIN values : a <= b,
                     values |-> values,
                     timestamps |-> [a \in DOMAIN values |-> NoTimestamp]]]

(* ModbusSequentialDataBlock.validate *)
SeqValidate(blk, address, count) ==
    /\ blk.address <= address
    /\ blk.address + Len(blk.values) >= address + count

(* ModbusSparseDataBlock.validate *)
SparseValidate(blk, address, count) ==
    /\ count /= 0
    /\ \A a \in address..(address + count - 1) : a \in DOMAIN blk.values

(* validate with the upper end of a Sequential block tested strictly *)
BlockValidateStrict(blk, address, count) ==
    IF blk.kind = "seq"
    THEN blk.address <= address /\ blk.address + Len(blk.values) > address + count
    ELSE SparseValidate(blk, address, count)

(* block.validate(address, count) of either variant *)
BlockValidate(blk, address, count) ==
    IF blk.kind = "seq" THEN SeqValidate(blk, address, count)
    ELSE SparseValidate(blk, address, count)

(* The merge loop of CbModbusSequentialDataBlock.getValues: the cache lists are
   indexed by the absolute address i, the returned timestamps by i as well. *)
RECURSIVE SeqMergeLoop(_, _, _, _, _, _)
SeqMergeLoop(blk, values, timestamps, i, stop, j) ==
    IF i >= stop
    THEN [err |-> "", block |-> blk]
    ELSE IF i >= Len(blk.values)
    THEN [err |-> "IndexError", block |-> blk]
    ELSE LET b1 == [blk EXCEPT !.values[i + 1] = values[j + 1]]
         IN  IF i >= Len(timestamps) \/ i >= Len(blk.timestamps)
             THEN [err |-> "IndexError", block |-> b1]
             ELSE SeqMergeLoop([b1 EXCEPT !.timestamps[i + 1] = timestamps[i + 1]],
                               values, timestamps, i + 1, stop, j + 1)

(* a getValues that merges what the read collected before it failed *)
SeqGetValuesMergingPartial(blk, rows, ctx, address, count) ==
    LET r == read_collection_data(rows, ctx, blk.register_type, address, count,
                                  DefaultFill)
        m == SeqMergeLoop(blk, r.values, r.timestamps,
                          address, address + Len(r.values), 0)
    IN  [err |-> IF r.err /= "" THEN r.err ELSE m.err, block |-> m.block,
         result |-> <<>>, calls |-> <<r.query>>]

(* CbModbusSequentialDataBlock.getValues(address, count) *)
SeqGetValues(blk, rows, ctx, address, count) ==
    LET start == address - blk.address
        r == read_collection_data(rows, ctx, blk.register_type, address, count,
                                  DefaultFill)
    IN  IF r.err /= ""
        THEN [err |-> r.err, block |-> blk, result |-> <<>>, calls |-> <<r.query>>]
        ELSE LET cnt == IF Len(r.values) /= count THEN Len(r.values) ELSE count
                 m == SeqMergeLoop(blk, r.values, r.timestamps,
                                   address, address + cnt, 0)
             IN  IF m.err /= ""
                 THEN [err |-> m.err, block |-> m.block, result |-> <<>>,
                       calls |-> <<r.query>>]
                 ELSE [err |-> "", block |-> m.block, calls |-> <<r.query>>,
                       result |-> PySlice(m.block.values, start, start + cnt)]

(* CbModbusSparseDataBlock.getValues(address, count) *)
SparseGetValues(blk, rows, ctx, address, count) ==
    LET r == read_collection_data(rows, ctx, blk.register_type, address, count,
                                  DefaultFill)
        hit == DOMAIN r.values \cap DOMAIN blk.values
        merged == [blk EXCEPT
            !.values = [a \in DOMAIN blk.values |->
                           IF a \in hit THEN r.values[a] ELSE blk.values[a]],
            !.timestamps = [a \in DOMAIN blk.timestamps \cup hit |->
                           IF a \in hit THEN r.timestamps[a] ELSE blk.timestamps[a]]]
    IN  IF r.err /= ""
        THEN [err |-> r.err, block |-> blk, result |-> <<>>, calls |-> <<r.query>>]
        ELSE IF \E a \in address..(address + count - 1) : a \notin DOMAIN merged.values
        THEN [err |-> "KeyError", block |-> merged, result |-> <<>>, calls |-> <<r.query>>]
        ELSE [err |-> "", block |-> merged, calls |-> <<r.query>>,
              result |-> [k \in 1..count |-> merged.values[address + k - 1]]]

(* block.getValues(address, count) of either variant *)
BlockGetValues(blk, rows, ctx, address, count) ==
    IF blk.kind = "seq" THEN SeqGetValues(blk, rows, ctx, address, count)
    ELSE SparseGetValues(blk, rows, ctx, address, count)

(* The write loop of CbModbusSequentialDataBlock.setValues:
   for i in range(address, len(values) - 1): write(address + i, values[i]) *)
SeqWriteCalls(ctx, register_type, address, values) ==
    [k \in 1..Max2(Len(values) - 1 - address, 0) |->
        WriteQuery(ctx, register_type, address + (address + k - 1),
                   values[(address + k - 1) + 1])]

(* CbModbusSequentialDataBlock.setValues(address, values), values a list *)
SeqSetValues(blk, ctx, address, values) ==
    LET start == address - blk.address
    IN  [err |-> "",
         block |-> [blk EXCEPT !.values =
                       PySliceAssign(blk.values, start, start + Len(values), values)],
         calls |-> SeqWriteCalls(ctx, blk.register_type, address, values)]

(* The positional write loop of CbModbusSparseDataBlock.setValues *)
SparseWriteCalls(ctx, register_type, address, values) ==
    [k \in 1..Len(values) |->
        WriteQuery(ctx, register_type, address + k - 1, values[k])]

(* dict item assignment d[k] = v *)
DictSet(d, k, v) == [a \in DOMAIN d \cup {k} |-> IF a = k THEN v ELSE d[a]]

RECURSIVE SparseStoreList(_, _, _, _)
SparseStoreList(d, address, values, k) ==
    IF k > Len(values) THEN d
    ELSE SparseStoreList(DictSet(d, address + k - 1, values[k]), address, values, k + 1)

(* CbModbusSparseDataBlock.setValues(address, values), values a list *)
SparseSetValues(blk, ctx, address, values) ==
    [err |-> "",
     block |-> [blk EXCEPT !.values = SparseStoreList(blk.values, address, values, 1)],
     calls |-> SparseWriteCalls(ctx, blk.register_type, address, values)]

(* The keys of a dict in iteration order (ascending for small integers) *)
RECURSIVE KeyList(_)
KeyList(S) ==
    IF S = {} THEN <<>>
    ELSE LET m == CHOOSE a \in S : \A b \in S : a <= b
         IN  <<m>> \o KeyList(S \ {m})

(* CbModbusSparseDataBlock.setValues(address, values), values a dict *)
SparseSetDict(blk, ctx, mapping) ==
    LET keys == KeyList(DOMAIN mapping)
    IN  [err |-> "",
         block |-> [blk EXCEPT !.values =
                       [a \in DOMAIN blk.values \cup DOMAIN mapping |->
                           IF a \in DOMAIN mapping THEN mapping[a] ELSE blk.values[a]]],
         calls |-> [k \in 1..Len(keys) |->
                       WriteQuery(ctx, blk.register_type, keys[k], mapping[keys[k]])]]

(* block.setValues(address, values) of either variant, values a list *)
BlockSetValues(blk, ctx, address, values) ==
    IF blk.kind = "seq" THEN SeqSetValues(blk, ctx, address, values)
    ELSE SparseSetValues(blk, ctx, address, values)

-----------------------------------------------------------------------------
(* The template parser, context.py _parse_config.
   A template is a list of lines.  A line is [kind, tokens]: kind is the marker
   the line starts with ("/*DEVICE;", "deviceId", "paramId" or "other"), tokens
   the fields after splitting on ";".  A token is [tag, bad, num, text]: the
   tag it starts with, whether its value fails int(), the integer value, and
   the text value (registerType).  A descriptor (_RegisterBlockConfig) is
   [param_id, address, register_type]; None is NoParam, NoAddress, "None". *)

NoParam == -1
MAX_ADDRESS == 99999
MIN_SLAVE_ID == 1
MAX_SLAVE_ID == 254

TEMPLATE_PARSER_DESC == "/*DEVICE;"
TEMPLATE_PARSER_NETWORK == "deviceId"
TEMPLATE_PARSER_REGISTER_DEF == "paramId"
TEMPLATE_PARSER_REG_UID == "paramId"
TEMPLATE_PARSER_REG_ADDRESS == "address"
TEMPLATE_PARSER_SLAVE_ID == "networkId"
TEMPLATE_PARSER_NOT_ZERO_MODE == "plcBaseAddress"
TEMPLATE_PARSER_REG_TYPE == "registerType"
TEMPLATE_PARSER_TYPE_HOLDING_REGISTER == "holding"
TEMPLATE_PARSER_TYPE_INPUT_REGISTER == "analog"
TEMPLATE_PARSER_TYPE_DISCRETE_INPUT == "input"
TEMPLATE_PARSER_TYPE_COIL == "coil"

Tok(tag, num) == [tag |-> tag, bad |-> FALSE, num |-> num, text |-> ""]
BadTok(tag) == [tag |-> tag, bad |-> TRUE, num |-> 0, text |-> ""]
TypeTok(text) == [tag |-> TEMPLATE_PARSER_REG_TYPE, bad |-> FALSE, num |-> 0, text |-> text]

(* _RegisterBlockConfig(param_id, address, register_type) *)
RegisterBlockConfig(param_id, address, register_type) ==
    [param_id |-> param_id, address |-> address, register_type |-> register_type]

(* The register type a registerType token names, "" if unsupported *)
TemplateType(text) ==
    IF text = TEMPLATE_PARSER_TYPE_INPUT_REGISTER THEN TYPE_INPUT_REGISTER
    ELSE IF text = TEMPLATE_PARSER_TYPE_HOLDING_REGISTER THEN TYPE_HOLDING_REGISTER
    ELSE IF text = TEMPLATE_PARSER_TYPE_DISCRETE_INPUT THEN TYPE_DISCRETE_INPUT
    ELSE IF text = TEMPLATE_PARSER_TYPE_COIL THEN TYPE_COIL
    ELSE ""

(* The parser's state: the slave fields it assigns, the descriptor list, and
   the exception that ended it ("" if none). *)
ParserStart(sid) ==
    [registers |-> <<>>, zero_mode |-> TRUE, sparse |-> FALSE, slave_id |-> sid,
     err |-> ""]

(* for reg in registers: if reg.param_id == this_reg: reg.<field> = value *)
SetAddress(registers, this_reg, addr) ==
    [i \in DOMAIN registers |->
        IF registers[i].param_id = this_reg
        THEN [registers[i] EXCEPT !.address = addr] ELSE registers[i]]

(* the assignment that keeps a register type once one is set *)
SetRegisterTypeOnce(registers, this_reg, t) ==
    [i \in DOMAIN registers |->
        IF registers[i].param_id = this_reg /\ registers[i].register_type = "None"
        THEN [registers[i] EXCEPT !.register_type = t] ELSE registers[i]]

SetRegisterType(registers, this_reg, t) ==
    [i \in DOMAIN registers |->
        IF registers[i].param_id = this_reg
        THEN [registers[i] EXCEPT !.register_type = t] ELSE registers[i]]

(* The zero-mode shift of a template address *)
TemplateAddress(zm, num) == IF ~zm THEN num + 1 ELSE num

(* The tokens of a register-definition line, from token k on *)
RECURSIVE RegTokens(_, _, _, _, _)
RegTokens(st, toks, k, reg_exists, this_reg) ==
    IF st.err /= "" \/ k > Len(toks) THEN st
    ELSE LET c == toks[k]
             regs == st.registers
         IN
         IF c.tag = TEMPLATE_PARSER_REG_UID THEN
             IF c.bad THEN [st EXCEPT !.err = "ValueError"]
             ELSE LET found == \E i \in DOMAIN regs : regs[i].param_id = c.num
                      exists1 == reg_exists \/ found
                      regs1 == IF ~exists1
                               THEN Append(regs, RegisterBlockConfig(c.num, NoAddress, "None"))
                               ELSE regs
                  IN  RegTokens([st EXCEPT !.registers = regs1], toks, k + 1, TRUE, c.num)
         ELSE IF c.tag = TEMPLATE_PARSER_REG_ADDRESS THEN
             IF c.bad THEN [st EXCEPT !.err = "ValueError"]
             ELSE LET addr == TemplateAddress(st.zero_mode, c.num)
                  IN  IF addr \in 0..MAX_ADDRESS
                      THEN LET regs1 == SetAddress(regs, this_reg, addr)
                               regs2 == IF ~reg_exists
                                        THEN Append(regs1, RegisterBlockConfig(NoParam, addr, "None"))
                                        ELSE regs1
                           IN  RegTokens([st EXCEPT !.registers = regs2], toks, k + 1,
                                         TRUE, this_reg)
                      ELSE RegTokens(st, toks, k + 1, reg_exists, this_reg)
         ELSE IF c.tag = TEMPLATE_PARSER_REG_TYPE THEN
             IF TemplateType(c.text) /= ""
             THEN RegTokens([st EXCEPT !.registers =
                                SetRegisterType(regs, this_reg, TemplateType(c.text))],
                            toks, k + 1, reg_exists, this_reg)
             ELSE RegTokens(st, toks, k + 1, reg_exists, this_reg)
         ELSE RegTokens(st, toks, k + 1, reg_exists, this_reg)

(* The tokens of a network-identity line *)
RECURSIVE NetTokens(_, _, _)
NetTokens(st, toks, k) ==
    IF st.err /= "" \/ k > Len(toks) THEN st
    ELSE LET i == toks[k]
         IN
         IF i.tag = TEMPLATE_PARSER_SLAVE_ID THEN
             IF i.bad THEN [st EXCEPT !.err = "ValueError"]
             ELSE IF i.num \in MIN_SLAVE_ID..MAX_SLAVE_ID
             THEN NetTokens([st EXCEPT !.slave_id = i.num], toks, k + 1)
             ELSE NetTokens(st, toks, k + 1)
         ELSE IF i.tag = TEMPLATE_PARSER_NOT_ZERO_MODE THEN
             IF i.bad THEN [st EXCEPT !.err = "ValueError"]
             ELSE NetTokens([st EXCEPT !.zero_mode = (i.num /= 1)], toks, k + 1)
         ELSE NetTokens(st, toks, k + 1)

(* The tokens of a device-description line (the identity tags carry free text
   and assign no slave field modelled here). *)
RECURSIVE DescTokens(_, _, _)
DescTokens(st, toks, k) ==
    IF st.err /= "" \/ k > Len(toks) THEN st
    ELSE LET t == toks[k]
         IN
         IF t.tag = "sparse" THEN
             IF t.bad THEN [st EXCEPT !.err = "ValueError"]
             ELSE DescTokens([st EXCEPT !.sparse = (t.num /= 0)], toks, k + 1)
         ELSE DescTokens(st, toks, k + 1)

(* One line of the template *)
ParseLine(st, line) ==
    IF line.kind = TEMPLATE_PARSER_DESC THEN DescTokens(st, line.tokens, 1)
    ELSE IF line.kind = TEMPLATE_PARSER_NETWORK THEN NetTokens(st, line.tokens, 1)
    ELSE IF line.kind = TEMPLATE_PARSER_REGISTER_DEF
    THEN RegTokens(st, line.tokens, 1, FALSE, NoParam)
    ELSE st

(* for line in lines *)
RECURSIVE ParseLines(_, _, _)
ParseLines(st, lines, k) ==
    IF st.err /= "" \/ k > Len(lines) THEN st
    ELSE ParseLines(ParseLine(st, lines[k]), lines, k + 1)

-----------------------------------------------------------------------------
(* The address space builder, context.py _parse_config (grouping),
   _setup_sparse_block and _setup_sequential_block. *)

(* The store keys, in the order _parse_config assigns them *)
StoreKeys == <<"h", "i", "d", "c">>
KeyType(key) ==
    IF key = "h" THEN TYPE_HOLDING_REGISTER
    ELSE IF key = "i" THEN TYPE_INPUT_REGISTER
    ELSE IF key = "d" THEN TYPE_DISCRETE_INPUT
    ELSE TYPE_COIL

(* The group a descriptor is appended to: the if / elif chain on
   reg.register_type, whose final else takes every other descriptor. *)
GroupOf(reg) ==
    IF reg.register_type = TYPE_HOLDING_REGISTER THEN TYPE_HOLDING_REGISTER
    ELSE IF reg.register_type = TYPE_INPUT_REGISTER THEN TYPE_INPUT_REGISTER
    ELSE IF reg.register_type = TYPE_DISCRETE_INPUT THEN TYPE_DISCRETE_INPUT
    ELSE TYPE_COIL

(* xx_sequential: the addresses appended for a group, in descriptor order *)
RECURSIVE SequentialGroup(_, _, _)
SequentialGroup(registers, t, k) ==
    IF k > Len(registers) THEN <<>>
    ELSE IF GroupOf(registers[k]) = t
    THEN <<registers[k].address>> \o SequentialGroup(registers, t, k + 1)
    ELSE SequentialGroup(registers, t, k + 1)

(* xx_sparse_block: the dict address -> 0 of a group *)
SparseGroup(registers, t) ==
    [a \in {registers[k].address : k \in {i \in DOMAIN registers : GroupOf(registers[i]) = t}}
        |-> 0]

(* list.sort() of a list of addresses; None sorts before every integer *)
RECURSIVE SortList(_)
SortList(L) ==
    IF L = <<>> THEN <<>>
    ELSE LET i == CHOOSE i \in DOMAIN L : \A j \in DOMAIN L : L[i] <= L[j]
         IN  <<L[i]>> \o SortList(SubSeq(L, 1, i - 1) \o SubSeq(L, i + 1, Len(L)))

(* _setup_sparse_block(block, register_type) *)
_setup_sparse_block(block, register_type) ==
    IF register_type \in REGISTER_TYPES /\ DOMAIN block /= {}
    THEN SparseBlockInit(register_type, block)
    ELSE [err |-> "", block |-> NoBlock]

(* _setup_sequential_block(block, register_type): range(block[0], block[-1])
   raises TypeError when block[0] is None. *)
_setup_sequential_block(block, register_type) ==
    IF register_type \in REGISTER_TYPES /\ Len(block) > 0
    THEN LET sorted == SortList(block)
         IN  IF sorted[1] = NoAddress
             THEN [err |-> "TypeError", block |-> NoBlock]
             ELSE SeqBlockInit(register_type, sorted[1],
                               Repeat(0, sorted[Len(sorted)] - sorted[1]))
    ELSE [err |-> "", block |-> NoBlock]

(* The block built for one store key *)
SetupBlock(registers, sp, key) ==
    IF sp THEN _setup_sparse_block(SparseGroup(registers, KeyType(key)), KeyType(key))
    ELSE _setup_sequential_block(SequentialGroup(registers, KeyType(key), 1), KeyType(key))

(* self.store = dict() *)
EmptyStore == [key \in {} |-> NoBlock]

(* The four store assignments, in order; the first exception ends them *)
RECURSIVE BuildStore(_, _, _, _)
BuildStore(registers, sp, st, k) ==
    IF k > Len(StoreKeys) THEN [err |-> "", store |-> st]
    ELSE LET b == SetupBlock(registers, sp, StoreKeys[k])
         IN  IF b.err /= "" THEN [err |-> b.err, store |-> st]
             ELSE BuildStore(registers, sp,
                             [x \in DOMAIN st \cup {StoreKeys[k]} |->
                                 IF x = StoreKeys[k] THEN b.block ELSE st[x]],
                             k + 1)

(* _parse_config(config_file): the slave fields, descriptors and store *)
_parse_config(sid, template) ==
    LET st == ParseLines(ParserStart(sid), template, 1)
        b == BuildStore(st.registers, st.sparse, EmptyStore, 1)
    IN  IF st.err /= ""
        THEN [err |-> st.err, registers |-> st.registers, zero_mode |-> st.zero_mode,
              sparse |-> st.sparse, slave_id |-> st.slave_id, store |-> EmptyStore]
        ELSE [err |-> b.err, registers |-> st.registers, zero_mode |-> st.zero_mode,
              sparse |-> st.sparse, slave_id |-> st.slave_id, store |-> b.store]

-----------------------------------------------------------------------------
(* The slave context's request surface, context.py validate / getValues /
   setValues, and the requests a behaviour draws. *)

(* a decode that sends every function code to the holding registers *)
DecodeHolding(fx) == "h"

(* IModbusSlaveContext.decode: function code -> store key *)
Decode(fx) ==
    IF fx \in {3, 6, 16, 22, 23} THEN "h"
    ELSE IF fx \in {1, 5, 15} THEN "c"
    ELSE IF fx = 2 THEN "d"
    ELSE "i"

(* the shift applied whatever zero_mode is *)
NormalizeAlways(zm, address) == address + 1

(* if not self.zero_mode: address = address + 1 *)
Normalize(zm, address) == IF ~zm THEN address + 1 ELSE address

(* The proxy address of the configuration row of the slave being served *)
IP_PROXY == "192.168.1.200"

(* The record of a request; "none" before the first one.
     op       "validate" | "getValues" | "setValues" | "report"
     level    "slave" (through the slave context) | "block" (the block's method)
     address  the address the caller gave; baddr the address the block got
     values   the values of a setValues (a list); scalar: given as one int
     mapping  the dict of a setValues given a dict
     valid    block.validate(baddr, count) before the call
     err      the exception raised, "" if the call returned
     result   the returned list; ok the returned boolean of validate
     calls    the remote queries and updates issued, in order
     pre      the block before the call
     failed   the position in calls of the remote update that failed, 0 if
              every remote call succeeded
     after    the single-value setValues (key, baddr, value) this request
              immediately follows, <<>> if it follows none               *)
NoRequest ==
    [op |-> "none", level |-> "", fx |-> 0, key |-> "", address |-> 0, baddr |-> 0,
     count |-> 0, values |-> <<>>, scalar |-> FALSE, mapping |-> <<>>,
     valid |-> FALSE, err |-> "", result |-> <<>>, ok |-> FALSE, calls |-> <<>>,
     pre |-> NoBlock, after |-> <<>>, failed |-> 0]

(* The single-value setValues the last request was, for the request after it *)
JustSet ==
    IF last.op = "setValues" /\ last.err = "" /\ Len(last.values) = 1
       /\ last.mapping = <<>>
    THEN <<last.key, last.baddr, last.values[1]>>
    ELSE <<>>

TheCtx == Ctx(IP_PROXY, slave_id, sparse)

FunctionCodes == {1, 3}
Addresses == 0..MaxAddr
Counts == 1..MaxCount
Data == {1, 2}
ValueLists == {<<1>>, <<1, 2>>, <<2, 1, 2>>}

(* ClearBladeModbusProxySlaveContext.validate(fx, address, count) *)
SlaveValidate(fx, address, count) ==
    LET key == Decode(fx)
        blk == store[key]
        baddr == Normalize(zero_mode, address)
        req == [NoRequest EXCEPT !.op = "validate", !.level = "slave", !.fx = fx,
                    !.key = key, !.address = address, !.baddr = baddr,
                    !.count = count, !.pre = blk]
    IN  /\ pc = "serving" /\ steps < MaxSteps
        /\ steps' = steps + 1
        /\ last' = IF blk.kind = "none"
                   THEN [req EXCEPT !.err = "AttributeError"]
                   ELSE [req EXCEPT !.valid = BlockValidate(blk, baddr, count),
                                    !.ok = BlockValidate(blk, baddr, count)]
        /\ UNCHANGED <<zero_mode, sparse, slave_id, store, remote,
                       pc, config_file, descriptors, config_rows, server>>

(* ClearBladeModbusProxySlaveContext.getValues(fx, address, count) *)
SlaveGetValues(fx, address, count) ==
    LET key == Decode(fx)
        blk == store[key]
        baddr == Normalize(zero_mode, address)
        req == [NoRequest EXCEPT !.op = "getValues", !.level = "slave", !.fx = fx,
                    !.key = key, !.address = address, !.baddr = baddr,
                    !.count = count, !.pre = blk, !.after = JustSet]
        r == BlockGetValues(blk, remote, TheCtx, baddr, count)
    IN  /\ pc = "serving" /\ steps < MaxSteps
        /\ steps' = steps + 1
        /\ IF blk.kind = "none"
           THEN /\ last' = [req EXCEPT !.err = "AttributeError"]
                /\ store' = store
           ELSE /\ last' = [req EXCEPT
                      !.valid = BlockValidate(blk, baddr, count),
                      !.err = r.err, !.result = r.result, !.calls = r.calls]
                /\ store' = [store EXCEPT ![key] = r.block]
        /\ UNCHANGED <<zero_mode, sparse, slave_id, remote,
                       pc, config_file, descriptors, config_rows, server>>

(* ClearBladeModbusProxySlaveContext.setValues(fx, address, values), a list *)
SlaveSetValues(fx, address, values) ==
    LET key == Decode(fx)
        blk == store[key]
        baddr == Normalize(zero_mode, address)
        req == [NoRequest EXCEPT !.op = "setValues", !.level = "slave", !.fx = fx,
                    !.key = key, !.address = address, !.baddr = baddr,
                    !.count = Len(values), !.values = values, !.pre = blk]
        r == BlockSetValues(blk, TheCtx, baddr, values)
    IN  /\ pc = "serving" /\ steps < MaxSteps
        /\ steps' = steps + 1
        /\ IF blk.kind = "none"
           THEN /\ last' = [req EXCEPT !.err = "AttributeError"]
                /\ UNCHANGED <<store, remote>>
           ELSE /\ last' = [req EXCEPT
                      !.valid = BlockValidate(blk, baddr, Len(values)),
                      !.err = r.err, !.calls = r.calls]
                /\ store' = [store EXCEPT ![key] = r.block]
                /\ remote' = ApplyWrites(remote, r.calls)
        /\ UNCHANGED <<zero_mode, sparse, slave_id,
                       pc, config_file, descriptors, config_rows, server>>

(* ClearBladeModbusProxySlaveContext.setValues given a single int: the debug
   line takes len(values) before the block is reached. *)
SlaveSetScalar(fx, address, value) ==
    /\ pc = "serving" /\ steps < MaxSteps
    /\ steps' = steps + 1
    /\ last' = [NoRequest EXCEPT !.op = "setValues", !.level = "slave", !.fx = fx,
                    !.key = Decode(fx), !.address = address,
                    !.baddr = Normalize(zero_mode, address), !.count = 1,
                    !.values = <<value>>, !.scalar = TRUE,
                    !.pre = store[Decode(fx)], !.err = "TypeError"]
    /\ UNCHANGED <<zero_mode, sparse, slave_id, store, remote,
                   pc, config_file, descriptors, config_rows, server>>

(* ClearBladeModbusProxySlaveContext.setValues given a dict, on a Sparse block *)
SlaveSetDict(fx, mapping) ==
    LET key == Decode(fx)
        blk == store[key]
        req == [NoRequest EXCEPT !.op = "setValues", !.level = "slave", !.fx = fx,
                    !.key = key, !.count = Cardinality(DOMAIN mapping),
                    !.mapping = mapping, !.pre = blk]
        r == SparseSetDict(blk, TheCtx, mapping)
    IN  /\ pc = "serving" /\ steps < MaxSteps
        /\ blk.kind = "sparse"
        /\ steps' = steps + 1
        /\ last' = [req EXCEPT !.valid = \A a \in DOMAIN mapping : a \in DOMAIN blk.values,
                               !.err = r.err, !.calls = r.calls]
        /\ store' = [store EXCEPT ![key] = r.block]
        /\ remote' = ApplyWrites(remote, r.calls)
        /\ UNCHANGED <<zero_mode, sparse, slave_id,
                       pc, config_file, descriptors, config_rows, server>>

(* block.setValues(address, value) called on the block with a single int:
   if not isinstance(values, list): values = [values] *)
BlockSetScalar(key, address, value) ==
    LET blk == store[key]
        req == [NoRequest EXCEPT !.op = "setValues", !.level = "block",
                    !.key = key, !.address = address, !.baddr = address,
                    !.count = 1, !.values = <<value>>, !.scalar = TRUE, !.pre = blk]
        r == BlockSetValues(blk, TheCtx, address, <<value>>)
    IN  /\ pc = "serving" /\ steps < MaxSteps
        /\ blk.kind /= "none"
        /\ steps' = steps + 1
        /\ last' = [req EXCEPT !.valid = BlockValidate(blk, address, 1),
                               !.err = r.err, !.calls = r.calls]
        /\ store' = [store EXCEPT ![key] = r.block]
        /\ remote' = ApplyWrites(remote, r.calls)
        /\ UNCHANGED <<zero_mode, sparse, slave_id,
                       pc, config_file, descriptors, config_rows, server>>

(* the failure of an update that a handler would catch and drop *)
RaiseAbsorbed(failed) == ""

(* collection.updateItems raising out of write_collection_data and setValues,
   which have no handler: the exception reaches the caller of setValues *)
Raise(failed) == IF failed > 0 THEN "RemoteError" ELSE ""

(* setValues(fx, address, values), a list, when the remote store fails the
   k-th update: the Sequential cache holds the whole slice, the Sparse cache
   the first k values, the updates before the k-th are applied and none
   after it is issued. *)
SlaveSetValuesFailing(fx, address, values, k) ==
    LET key == Decode(fx)
        blk == store[key]
        baddr == Normalize(zero_mode, address)
        req == [NoRequest EXCEPT !.op = "setValues", !.level = "slave", !.fx = fx,
                    !.key = key, !.address = address, !.baddr = baddr,
                    !.count = Len(values), !.values = values, !.pre = blk]
        r == BlockSetValues(blk, TheCtx, baddr, values)
        part == IF blk.kind = "sparse"
                THEN BlockSetValues(blk, TheCtx, baddr, SubSeq(values, 1, k)).block
                ELSE r.block
    IN  /\ pc = "serving" /\ steps < MaxSteps
        /\ blk.kind /= "none"
        /\ r.err = ""
        /\ k \in 1..Len(r.calls)
        /\ steps' = steps + 1
        /\ last' = [req EXCEPT !.valid = BlockValidate(blk, baddr, Len(values)),
                               !.failed = k, !.err = Raise(k),
                               !.calls = SubSeq(r.calls, 1, k)]
        /\ store' = [store EXCEPT ![key] = part]
        /\ remote' = ApplyWrites(remote, SubSeq(r.calls, 1, k - 1))
        /\ UNCHANGED <<zero_mode, sparse, slave_id,
                       pc, config_file, descriptors, config_rows, server>>

(* getValues(fx, address, count) when the remote store fails the query:
   collection.getItems raises out of read_collection_data, the first
   statement of getValues that touches anything, and out of getValues, which
   has no handler; the merge loop is not reached. *)
SlaveGetValuesFailing(fx, address, count) ==
    LET key == Decode(fx)
        blk == store[key]
        baddr == Normalize(zero_mode, address)
    IN  /\ pc = "serving" /\ steps < MaxSteps
        /\ blk.kind /= "none"
        /\ steps' = steps + 1
        /\ last' = [NoRequest EXCEPT !.op = "getValues", !.level = "slave", !.fx = fx,
                        !.key = key, !.address = address, !.baddr = baddr,
                        !.count = count, !.pre = blk,
                        !.valid = BlockValidate(blk, baddr, count),
                        !.failed = 1, !.err = Raise(1),
                        !.calls = <<ReadQuery(TheCtx, blk.register_type, baddr, count)>>]
        /\ UNCHANGED <<zero_mode, sparse, slave_id, store, remote,
                       pc, config_file, descriptors, config_rows, server>>

(* CbModbusSequentialDataBlock.get_timestamps / CbModbusSparseDataBlock.get_timestamps *)
get_timestamps(blk, address, count) ==
    IF blk.kind = "seq"
    THEN [err |-> "",
          result |-> PySlice(blk.timestamps, address - blk.address,
                             address - blk.address + count)]
    ELSE IF \A i \in address..(address + count - 1) : i \in DOMAIN blk.timestamps
    THEN [err |-> "", result |-> [k \in 1..count |-> blk.timestamps[address + k - 1]]]
    ELSE [err |-> "KeyError", result |-> <<>>]

(* block.get_timestamps(address, count), called on the block *)
BlockGetTimestamps(key, address, count) ==
    LET blk == store[key]
        r == get_timestamps(blk, address, count)
    IN  /\ pc = "serving" /\ steps < MaxSteps
        /\ blk.kind /= "none"
        /\ steps' = steps + 1
        /\ last' = [NoRequest EXCEPT !.op = "getTimestamps", !.level = "block",
                        !.key = key, !.address = address, !.baddr = address,
                        !.count = count, !.pre = blk,
                        !.valid = BlockValidate(blk, address, count),
                        !.err = r.err, !.result = r.result]
        /\ UNCHANGED <<zero_mode, sparse, slave_id, store, remote,
                       pc, config_file, descriptors, config_rows, server>>

(* ClearBladeModbusProxySlaveContext.reset(): logs a warning *)
SlaveReset ==
    /\ pc = "serving" /\ steps < MaxSteps
    /\ steps' = steps + 1
    /\ last' = [NoRequest EXCEPT !.op = "reset", !.level = "slave"]
    /\ UNCHANGED <<zero_mode, sparse, slave_id, store, remote,
                   pc, config_file, descriptors, config_rows, server>>

(* A row of the data collection *)
Row(ip, sid, register_type, address, data, ts) ==
    [ip_address |-> ip, slave_id |-> sid, register_type |-> register_type,
     register_address |-> address, register_data |-> data, timestamp |-> ts]

SameKey(r, q) ==
    /\ r.ip_address = q.ip_address /\ r.slave_id = q.slave_id
    /\ r.register_type = q.register_type /\ r.register_address = q.register_address

(* The field side reports a register: its row is created or replaced, with a
   new timestamp (the collection "holds the latest reported data"). *)
FieldReport(register_type, address, data) ==
    LET row == Row(IP_PROXY, slave_id, register_type, address, data, 2)
    IN  /\ pc = "serving" /\ steps < MaxSteps
        /\ row \notin remote
        /\ steps' = steps + 1
        /\ remote' = {r \in remote : ~SameKey(r, row)} \cup {row}
        /\ last' = [NoRequest EXCEPT !.op = "report", !.baddr = address]
        /\ UNCHANGED <<zero_mode, sparse, slave_id, store,
                       pc, config_file, descriptors, config_rows, server>>

-----------------------------------------------------------------------------
(* Templates *)

RegLine(p, a, text) ==
    [kind |-> TEMPLATE_PARSER_REGISTER_DEF,
     tokens |-> <<Tok(TEMPLATE_PARSER_REG_UID, p), Tok(TEMPLATE_PARSER_REG_ADDRESS, a),
                  TypeTok(text)>>]

(* "deviceId=..;plcBaseAddress=plc" *)
NetLine(plc) ==
    [kind |-> TEMPLATE_PARSER_NETWORK,
     tokens |-> <<Tok(TEMPLATE_PARSER_NETWORK, 0), Tok(TEMPLATE_PARSER_NOT_ZERO_MODE, plc)>>]

(* "/*DEVICE;sparse=n" *)
DescLine(n) ==
    [kind |-> TEMPLATE_PARSER_DESC,
     tokens |-> <<Tok("/*DEVICE", 0), Tok("sparse", n)>>]

(* The register lines of the slaves that are served *)
ServingLayouts ==
    { <<RegLine(1, 0, "holding"), RegLine(2, 1, "holding"),
        RegLine(3, 2, "holding"), RegLine(4, 3, "holding")>>,
      <<RegLine(1, 1, "holding"), RegLine(2, 3, "holding"),
        RegLine(3, 0, "coil"), RegLine(4, 1, "coil")>> }

ServingTemplates ==
    { <<DescLine(sp), NetLine(plc)>> \o layout :
        sp \in {0, 1}, plc \in {0, 1}, layout \in ServingLayouts }

(* The unit id of the configuration row of the slave being served *)
ServedUnit == 1

(* Rows the field has reported before serving starts: data 3 + address *)
SeedRows(present) ==
    {Row(IP_PROXY, ServedUnit, TYPE_HOLDING_REGISTER, a, 3 + a, 1) : a \in present}

(* The addresses that have a row when serving starts: none, all, all but
   address 1, the first two only *)
SeedPatterns ==
    { {}, 0..(MaxAddr + 1), (0..(MaxAddr + 1)) \ {1}, {0, 1} }

(* Rows of another proxy, another unit and another register type *)
ForeignRows ==
    { Row("192.168.1.201", ServedUnit, TYPE_HOLDING_REGISTER, 1, 9, 1),
      Row(IP_PROXY, ServedUnit + 1, TYPE_HOLDING_REGISTER, 1, 9, 1),
      Row(IP_PROXY, ServedUnit, TYPE_INPUT_REGISTER, 1, 9, 1) }

DictInputs == { [a \in {1} |-> 2], [a \in {0, 2} |-> 1 + (a \div 2)] }

-----------------------------------------------------------------------------
(* Serving one slave context *)

Init ==
    /\ config_file \in ServingTemplates
    /\ LET built == _parse_config(ServedUnit, config_file)
       IN  /\ built.err = ""
           /\ zero_mode = built.zero_mode
           /\ sparse = built.sparse
           /\ slave_id = built.slave_id
           /\ store = built.store
           /\ descriptors = built.registers
    /\ \E present \in SeedPatterns :
           remote = SeedRows(present) \cup ForeignRows
    /\ last = NoRequest
    /\ steps = 0
    /\ pc = "serving"
    /\ config_rows = <<>>
    /\ server = <<>>

Next ==
    \/ \E fx \in FunctionCodes, a \in Addresses, n \in Counts : SlaveValidate(fx, a, n)
    \/ \E fx \in FunctionCodes, a \in Addresses, n \in Counts : SlaveGetValues(fx, a, n)
    \/ \E fx \in FunctionCodes, a \in Addresses, v \in ValueLists : SlaveSetValues(fx, a, v)
    \/ \E fx \in FunctionCodes, a \in Addresses, v \in Data : SlaveSetScalar(fx, a, v)
    \/ \E fx \in FunctionCodes, m \in DictInputs : SlaveSetDict(fx, m)
    \/ \E k \in {"h", "c"}, a \in Addresses, v \in Data : BlockSetScalar(k, a, v)
    \/ \E fx \in FunctionCodes, a \in Addresses, v \in ValueLists, k \in Counts :
           SlaveSetValuesFailing(fx, a, v, k)
    \/ \E k \in {"h", "c"}, a \in 0..(MaxAddr + 1), n \in Counts :
           BlockGetTimestamps(k, a, n)
    \/ SlaveReset
    \/ \E a \in 0..(MaxAddr + 1), v \in Data :
           FieldReport(TYPE_HOLDING_REGISTER, a, v)
    \/ \E fx \in FunctionCodes, a \in Addresses, n \in Counts :
           SlaveGetValuesFailing(fx, a, n)

Spec == Init /\ [][Next]_vars

-----------------------------------------------------------------------------
(* What a block caches at an address *)

(* The block's address domain: [base, base + len(values)) or the key set *)
InDomain(blk, a) ==
    IF blk.kind = "seq"
    THEN a >= blk.address /\ a < blk.address + Len(blk.values)
    ELSE a \in DOMAIN blk.values

CachedValue(blk, a) ==
    IF blk.kind = "seq" THEN blk.values[a - blk.address + 1] ELSE blk.values[a]

(* The cached timestamp at an address of the domain; None where the block
   holds no timestamp slot for it *)
CachedTimestamp(blk, a) ==
    IF blk.kind = "seq"
    THEN IF a - blk.address + 1 \in DOMAIN blk.timestamps
         THEN blk.timestamps[a - blk.address + 1] ELSE NoTimestamp
    ELSE IF a \in DOMAIN blk.timestamps THEN blk.timestamps[a] ELSE NoTimestamp

(* The addresses of the last request's range, as the block got them *)
LastRange == last.baddr..(last.baddr + last.count - 1)

(* The addresses some block of the model may hold *)
AllAddresses == 0..(2 * MaxAddr + MaxCount + 2)

(* The rows the remote store holds for the last request's range *)
LastRows ==
    GetItems(remote, ReadQuery(TheCtx, last.pre.register_type, last.baddr, last.count))

LastRowAddresses == {r.register_address : r \in LastRows}

(* The block the last request addressed, as it is now *)
LastBlock == store[last.key]

-----------------------------------------------------------------------------
(* C1: after getValues(address, count) on a validated range of a block of
   either variant, the call has returned, the cache holds the data and the
   timestamp of every row the remote store returned for the range, entries
   outside the range are unchanged, and the k-th returned value is the cached
   value of address + k. *)
C1_GetValuesMergesRows ==
    (last.op = "getValues" /\ last.valid) =>
        /\ last.err = ""
        /\ \A r \in LastRows :
              /\ CachedValue(LastBlock, r.register_address) = r.register_data
              /\ CachedTimestamp(LastBlock, r.register_address) = r.timestamp
        /\ \A a \in AllAddresses \ LastRange :
              InDomain(last.pre, a) =>
                  /\ InDomain(LastBlock, a)
                  /\ CachedValue(LastBlock, a) = CachedValue(last.pre, a)
                  /\ CachedTimestamp(LastBlock, a) = CachedTimestamp(last.pre, a)
        /\ Len(last.result) = last.count
        /\ \A k \in 1..last.count :
              last.result[k] = CachedValue(LastBlock, last.baddr + k - 1)

(* C1 on Sparse blocks alone. *)
C1_SparseGetValuesMergesRows ==
    (last.op = "getValues" /\ last.valid /\ last.pre.kind = "sparse") =>
        C1_GetValuesMergesRows

(* C2: setValues carrying n values issues exactly n remote updates, the k-th
   for address + k with data values[k], and the cache then holds values[k] at
   each of these addresses; given a dict, one update per entry at its key. *)
C2_SetValuesWritesEach ==
    (last.op = "setValues" /\ last.err = "") =>
        IF last.mapping = <<>>
        THEN /\ Len(last.calls) = Len(last.values)
             /\ \A k \in 1..Len(last.values) :
                   /\ last.calls[k] = WriteQuery(TheCtx, last.pre.register_type,
                                                 last.baddr + k - 1, last.values[k])
                   /\ InDomain(last.pre, last.baddr + k - 1) =>
                         CachedValue(LastBlock, last.baddr + k - 1) = last.values[k]
        ELSE /\ Len(last.calls) = Cardinality(DOMAIN last.mapping)
             /\ \A a \in DOMAIN last.mapping :
                   \E k \in 1..Len(last.calls) :
                       last.calls[k] = WriteQuery(TheCtx, last.pre.register_type,
                                                  a, last.mapping[a])

(* C3: a getValues(addr, 1) that immediately follows setValues(addr, v) on an
   address of the block's domain whose row the remote store holds returns [v]. *)
C3_RoundTrip ==
    (/\ last.op = "getValues" /\ last.count = 1 /\ last.valid
     /\ last.after /= <<>>
     /\ last.after[1] = last.key /\ last.after[2] = last.baddr
     /\ LastRows /= {}) =>
        /\ last.err = ""
        /\ last.result = <<last.after[3]>>

(* C4: validate(address, count) with count >= 1 returns true exactly when
   every address of [address, address + count) is in the block's domain. *)
C4_ValidateIffInDomain ==
    (last.op = "validate" /\ last.err = "") =>
        (last.ok <=> \A a \in LastRange : InDomain(last.pre, a))

(* Witness of C4: a validate that accepted a range of several addresses on a
   Sequential block whose base is not 0, after an earlier request. *)
C4_Witness ==
    /\ last.op = "validate" /\ last.ok /\ last.count >= 2
    /\ last.pre.kind = "seq" /\ last.pre.address > 0 /\ steps = 2

(* The shift of the slave: 0 with zero_mode, 1 without *)
Shift == IF zero_mode THEN 0 ELSE 1

(* C5: every validate, getValues and setValues request through the slave
   context reaches the block with the protocol address shifted once (by 1 if
   zero_mode is false, by 0 if it is true), the remote query it issues starts
   at that address, and every remote update it issues is the one of a value
   values[k] at the shifted address + k. *)
C5_ShiftOnce ==
    (last.level = "slave" /\ last.op \in {"validate", "getValues", "setValues"}
     /\ last.mapping = <<>>) =>
        /\ last.baddr = last.address + Shift
        /\ \A c \in 1..Len(last.calls) :
              IF last.calls[c].op = "query"
              THEN last.calls[c].address = last.address + Shift
              ELSE \E k \in 1..Len(last.values) :
                      /\ last.calls[c].address = last.address + Shift + k - 1
                      /\ last.calls[c].data = last.values[k]

(* Witness of C5: with zero_mode false, the second request of a behaviour
   was a getValues that queried the remote store. *)
C5_Witness ==
    /\ ~zero_mode /\ steps = 2 /\ last.level = "slave"
    /\ last.op = "getValues" /\ Len(last.calls) = 1 /\ last.err = ""

(* C6: a Sequential getValues on a validated range for which the remote store
   holds rows for only a proper subset of the addresses returns count values:
   the row's data where there is a row and 0 where there is none. *)
C6_GapFill ==
    (/\ last.op = "getValues" /\ last.valid /\ last.pre.kind = "seq"
     /\ LastRowAddresses /= {} /\ LastRowAddresses /= LastRange) =>
        /\ last.err = ""
        /\ Len(last.result) = last.count
        /\ \A k \in 1..last.count :
              last.result[k] =
                  IF last.baddr + k - 1 \in LastRowAddresses
                  THEN (CHOOSE r \in LastRows :
                           r.register_address = last.baddr + k - 1).register_data
                  ELSE FILL_VALUE

(* C7: a getValues on a validated range for which the bridge returns fewer rows
   than count returns count values, the previously cached value at every
   address without a row, whose cached value and timestamp are unchanged. *)
C7_ShortReadFallsBack ==
    (/\ last.op = "getValues" /\ last.valid
     /\ Cardinality(LastRows) < last.count) =>
        /\ last.err = ""
        /\ Len(last.result) = last.count
        /\ \A a \in LastRange \ LastRowAddresses :
              /\ last.result[a - last.baddr + 1] = CachedValue(last.pre, a)
              /\ CachedValue(LastBlock, a) = CachedValue(last.pre, a)
              /\ CachedTimestamp(LastBlock, a) = CachedTimestamp(last.pre, a)

-----------------------------------------------------------------------------
(* Constructing one slave context from a template *)

(* All sequences over S of length at most n *)
RECURSIVE SeqsUpTo(_, _)
SeqsUpTo(S, n) ==
    IF n = 0 THEN {<<>>}
    ELSE LET shorter == SeqsUpTo(S, n - 1)
         IN  shorter \cup {Append(q, x) : q \in shorter, x \in S}

(* The template address each paramId of the model names *)
ParamAddress(p) == 3 + 2 * p

(* Register-definition lines: paramId=p;address=a;registerType=t for three
   paramIds at addresses 5, 7, 9; the same without registerType, or without
   address; an address out of range; an address that is no integer. *)
RegLines ==
    { RegLine(p, ParamAddress(p), text) : p \in {1, 2, 3}, text \in {"holding", "coil"} }
    \cup { RegLine(1, ParamAddress(1), "bogus"), RegLine(1, ParamAddress(3), "coil") }
    \cup { [kind |-> TEMPLATE_PARSER_REGISTER_DEF,
            tokens |-> <<Tok(TEMPLATE_PARSER_REG_UID, p),
                         Tok(TEMPLATE_PARSER_REG_ADDRESS, ParamAddress(p))>>] : p \in {1, 2} }
    \cup { [kind |-> TEMPLATE_PARSER_REGISTER_DEF,
            tokens |-> <<Tok(TEMPLATE_PARSER_REG_UID, 2), TypeTok("coil")>>] }
    \cup { RegLine(3, MAX_ADDRESS + 1, "holding") }
    \cup { [kind |-> TEMPLATE_PARSER_REGISTER_DEF,
            tokens |-> <<Tok(TEMPLATE_PARSER_REG_UID, 3),
                         BadTok(TEMPLATE_PARSER_REG_ADDRESS), TypeTok("holding")>>] }

(* The lines before the register definitions *)
Headers ==
    { <<>>, <<DescLine(1)>>, <<NetLine(1)>>, <<DescLine(1), NetLine(1)>> }

(* The lines around the register definitions: the description and network
   lines before them, or the network line after them *)
Frames ==
    { <<h, <<>>>> : h \in Headers }
    \cup { <<<<>>, <<NetLine(1)>>>>, <<<<DescLine(1)>>, <<NetLine(1)>>>> }

BuildTemplates ==
    { f[1] \o body \o f[2] : f \in Frames, body \in SeqsUpTo(RegLines, MaxRegLines) }

InitBuild ==
    /\ config_file \in BuildTemplates
    /\ zero_mode = TRUE
    /\ sparse = FALSE
    /\ slave_id = ServedUnit
    /\ store = EmptyStore
    /\ descriptors = <<>>
    /\ remote = {}
    /\ last = NoRequest
    /\ steps = 0
    /\ pc = "config"
    /\ config_rows = <<>>
    /\ server = <<>>

(* ClearBladeModbusProxySlaveContext.__init__(server_context, config) *)
ConstructSlave ==
    LET built == _parse_config(slave_id, config_file)
    IN  /\ pc = "config"
        /\ zero_mode' = built.zero_mode
        /\ sparse' = built.sparse
        /\ slave_id' = built.slave_id
        /\ store' = built.store
        /\ descriptors' = built.registers
        /\ last' = [NoRequest EXCEPT !.op = "construct", !.err = built.err]
        /\ pc' = IF built.err = "" THEN "serving" ELSE "failed"
        /\ UNCHANGED <<remote, steps, config_file, config_rows, server>>

NextBuild == ConstructSlave

SpecBuild == InitBuild /\ [][NextBuild]_vars

-----------------------------------------------------------------------------
(* The slave contexts built from a template: what the address space builder
   left in the store. *)

(* The valid addresses the descriptors name for a register type *)
ValidAddresses(t) ==
    { descriptors[k].address :
        k \in { i \in DOMAIN descriptors :
                  descriptors[i].register_type = t /\ descriptors[i].address /= NoAddress } }

SetMin(S) == CHOOSE x \in S : \A y \in S : x <= y
SetMax(S) == CHOOSE x \in S : \A y \in S : x >= y

StoreKeySet == { StoreKeys[k] : k \in DOMAIN StoreKeys }

(* The template was parsed to its last line *)
Parsed == last.op = "construct" /\ last.err /= "ValueError"

(* C9: for a non-sparse slave and every register type with at least one valid
   descriptor address, construction yields a Sequential block whose base is
   the minimum descriptor address and which covers [min, max), every covered
   position holding value 0 and no timestamp. *)
C9_SequentialLayout ==
    (Parsed /\ ~sparse) =>
        \A key \in StoreKeySet :
            LET valid == ValidAddresses(KeyType(key))
            IN  valid /= {} =>
                  /\ pc = "serving"
                  /\ key \in DOMAIN store
                  /\ store[key].kind = "seq"
                  /\ store[key].address = SetMin(valid)
                  /\ \A a \in SetMin(valid)..(SetMax(valid) - 1) :
                        /\ InDomain(store[key], a)
                        /\ CachedValue(store[key], a) = 0
                        /\ CachedTimestamp(store[key], a) = NoTimestamp

(* C10: for a sparse slave and every register type, the Sparse block's key set
   is exactly the set of valid addresses named by the descriptors of that
   type, each with value 0 and no timestamp, and an address between two named
   addresses is not validated; a type with no valid address has no block. *)
C10_SparseLayout ==
    (Parsed /\ sparse) =>
        \A key \in StoreKeySet :
            LET valid == ValidAddresses(KeyType(key))
            IN  /\ pc = "serving"
                /\ key \in DOMAIN store
                /\ IF valid = {} THEN store[key].kind = "none"
                   ELSE /\ store[key].kind = "sparse"
                        /\ DOMAIN store[key].values = valid
                        /\ \A a \in valid :
                              /\ CachedValue(store[key], a) = 0
                              /\ CachedTimestamp(store[key], a) = NoTimestamp
                        /\ \A a \in SetMin(valid)..SetMax(valid) :
                              a \notin valid => ~BlockValidate(store[key], a, 1)

-----------------------------------------------------------------------------
(* The server context, context.py ClearBladeModbusProxyServerContext *)

(* ModbusServerContext.__setitem__ accepts the unit ids 0x00..0xf7 *)
MAX_SERVER_UNIT == 247

(* A row of the slave configuration collection *)
ConfigRow(sid, template) == [slave_id |-> sid, config_file |-> template]

(* ClearBladeModbusProxySlaveContext(server_context=self, config=row) *)
SlaveContext(row) ==
    LET built == _parse_config(row.slave_id, row.config_file)
    IN  [err |-> built.err, slave_id |-> built.slave_id, zero_mode |-> built.zero_mode,
         sparse |-> built.sparse, store |-> built.store]

(* The test of line 337 with its branches exchanged never finds a duplicate *)
SlaveIdSeenNever(slaves, sid) == FALSE

(* slave_id in slaves *)
SlaveIdSeen(slaves, sid) == \E i \in DOMAIN slaves : slaves[i] = sid

(* self[slave_id] = context *)
SetItem(srv, sid, context) ==
    [u \in DOMAIN srv \cup {sid} |-> IF u = sid THEN context ELSE srv[u]]

(* for row in rows: the first exception ends the loop and the construction *)
RECURSIVE InitializeLoop(_, _, _, _)
InitializeLoop(rows, k, slaves, srv) ==
    IF k > Len(rows) THEN [err |-> "", server |-> srv]
    ELSE LET sid == rows[k].slave_id
             context == SlaveContext(rows[k])
         IN  IF ~SlaveIdSeen(slaves, sid)
             THEN IF context.err /= "" THEN [err |-> context.err, server |-> srv]
                  ELSE IF sid \notin 0..MAX_SERVER_UNIT
                  THEN [err |-> "NoSuchSlaveException", server |-> srv]
                  ELSE InitializeLoop(rows, k + 1, Append(slaves, sid),
                                      SetItem(srv, sid, context))
             ELSE InitializeLoop(rows, k + 1, slaves, srv)

(* "deviceId=..;networkId=n" *)
NetIdLine(n) ==
    [kind |-> TEMPLATE_PARSER_NETWORK,
     tokens |-> <<Tok(TEMPLATE_PARSER_NETWORK, 0), Tok(TEMPLATE_PARSER_SLAVE_ID, n)>>]

(* The templates of the configuration rows: two holding registers; a sparse
   coil; a networkId line before two holding registers; an address that is
   no integer; a networkId out of range. *)
RowTemplates ==
    { <<RegLine(1, 0, "holding"), RegLine(2, 2, "holding")>>,
      <<DescLine(1), RegLine(1, 0, "coil")>>,
      <<[kind |-> TEMPLATE_PARSER_NETWORK,
         tokens |-> <<Tok(TEMPLATE_PARSER_NETWORK, 0), Tok(TEMPLATE_PARSER_SLAVE_ID, 2)>>],
        RegLine(1, 1, "holding"), RegLine(2, 3, "holding")>>,
      <<[kind |-> TEMPLATE_PARSER_REGISTER_DEF,
         tokens |-> <<Tok(TEMPLATE_PARSER_REG_UID, 1),
                      BadTok(TEMPLATE_PARSER_REG_ADDRESS)>>]>>,
      <<NetIdLine(MAX_SLAVE_ID + 1), RegLine(1, 0, "coil"), RegLine(2, 1, "coil")>> }

RowUnitIds == {0, 1, 2, 250}

ConfigRows == { ConfigRow(sid, t) : sid \in RowUnitIds, t \in RowTemplates }

InitServer ==
    /\ config_rows \in SeqsUpTo(ConfigRows, MaxRows)
    /\ server = <<>>
    /\ pc = "config"
    /\ last = NoRequest
    /\ config_file = <<>>
    /\ zero_mode = TRUE
    /\ sparse = FALSE
    /\ slave_id = ServedUnit
    /\ store = EmptyStore
    /\ descriptors = <<>>
    /\ remote = {}
    /\ steps = 0

(* ClearBladeModbusProxyServerContext.__init__ -> _initialize_slaves() *)
InitializeSlaves ==
    LET done == InitializeLoop(config_rows, 1, <<>>, <<>>)
    IN  /\ pc = "config"
        /\ server' = done.server
        /\ last' = [NoRequest EXCEPT !.op = "initialize", !.err = done.err]
        /\ pc' = IF done.err = "" THEN "serving" ELSE "failed"
        /\ UNCHANGED <<zero_mode, sparse, slave_id, store, remote, steps,
                       config_file, descriptors, config_rows>>

NextServer == InitializeSlaves

SpecServer == InitServer /\ [][NextServer]_vars

(* The first row, in row order, that carries a unit id *)
FirstRow(u) ==
    config_rows[SetMin({ i \in DOMAIN config_rows : config_rows[i].slave_id = u })]

RowUnits == { config_rows[i].slave_id : i \in DOMAIN config_rows }

(* C8: after the server context is constructed it holds exactly one slave
   context for each distinct unit id of the rows, the one built from the first
   row carrying that unit id; later rows repeating it change nothing. *)
C8_OnePerUnitFirstWins ==
    (last.op = "initialize" /\ pc = "serving") =>
        /\ DOMAIN server = RowUnits
        /\ \A u \in RowUnits : server[u] = SlaveContext(FirstRow(u))

(* A unit id repeated by a later row with another template, with a row of
   another unit in between *)
C8_Witness ==
    /\ last.op = "initialize" /\ pc = "serving"
    /\ Len(config_rows) = 3
    /\ config_rows[1].slave_id = config_rows[3].slave_id
    /\ config_rows[2].slave_id /= config_rows[1].slave_id
    /\ SlaveContext(config_rows[1]) /= SlaveContext(config_rows[3])
    /\ server[config_rows[1].slave_id] = SlaveContext(config_rows[1])

-----------------------------------------------------------------------------
(* What the template assigns to each paramId, read off the template text *)

ParamIds == {1, 2, 3}

(* The register-definition lines that name paramId p *)
LinesNaming(p) ==
    { k \in DOMAIN config_file :
        /\ config_file[k].kind = TEMPLATE_PARSER_REGISTER_DEF
        /\ config_file[k].tokens[1].tag = TEMPLATE_PARSER_REG_UID
        /\ ~config_file[k].tokens[1].bad
        /\ config_file[k].tokens[1].num = p }

(* zero_mode as it is when line k is reached *)
ZeroModeAt(k) ==
    ParseLines(ParserStart(ServedUnit), SubSeq(config_file, 1, k - 1), 1).zero_mode

(* The positions <<line, field>> that validly assign an address, a register
   type, to paramId p *)
AddressAssignments(p) ==
    { <<k, j>> \in LinesNaming(p) \X (1..4) :
        /\ j \in DOMAIN config_file[k].tokens
        /\ config_file[k].tokens[j].tag = TEMPLATE_PARSER_REG_ADDRESS
        /\ ~config_file[k].tokens[j].bad
        /\ TemplateAddress(ZeroModeAt(k), config_file[k].tokens[j].num) \in 0..MAX_ADDRESS }

TypeAssignments(p) ==
    { <<k, j>> \in LinesNaming(p) \X (1..4) :
        /\ j \in DOMAIN config_file[k].tokens
        /\ config_file[k].tokens[j].tag = TEMPLATE_PARSER_REG_TYPE
        /\ TemplateType(config_file[k].tokens[j].text) /= "" }

(* The last position of a set of positions, in template order *)
LastPosition(S) ==
    CHOOSE x \in S : \A y \in S : y[1] < x[1] \/ (y[1] = x[1] /\ y[2] <= x[2])

(* The template address last assigned to paramId p, and zero_mode then *)
LastTemplateAddress(p) ==
    LET x == LastPosition(AddressAssignments(p))
    IN  config_file[x[1]].tokens[x[2]].num

ExpectedAddress(p) ==
    IF AddressAssignments(p) = {} THEN NoAddress
    ELSE TemplateAddress(ZeroModeAt(LastPosition(AddressAssignments(p))[1]),
                         LastTemplateAddress(p))

ExpectedType(p) ==
    IF TypeAssignments(p) = {} THEN "None"
    ELSE LET x == LastPosition(TypeAssignments(p))
         IN  TemplateType(config_file[x[1]].tokens[x[2]].text)

DescriptorsOf(p) == { i \in DOMAIN descriptors : descriptors[i].param_id = p }

(* C11: the parser produces at most one descriptor per paramId; the lines that
   share a paramId merge into one descriptor whose address and register type
   are those of the last valid assignment made for that paramId. *)
C11_OneDescriptorPerParam ==
    Parsed =>
        /\ \A i \in DOMAIN descriptors : descriptors[i].param_id \in ParamIds
        /\ \A p \in ParamIds :
              /\ Cardinality(DescriptorsOf(p)) <= 1
              /\ LinesNaming(p) /= {} =>
                    \E i \in DescriptorsOf(p) :
                        /\ descriptors[i].address = ExpectedAddress(p)
                        /\ descriptors[i].register_type = ExpectedType(p)

(* paramId=p;address=a;registerType=holding, later paramId=p;registerType=coil:
   one descriptor with address a and type coil *)
C11_Witness ==
    /\ Parsed /\ zero_mode
    /\ \E k1, k2 \in LinesNaming(2) :
          /\ k1 < k2
          /\ config_file[k1] = RegLine(2, ParamAddress(2), "holding")
          /\ Len(config_file[k2].tokens) = 2
          /\ k2 = LastPosition(TypeAssignments(2))[1]
    /\ \E i \in DescriptorsOf(2) :
          /\ descriptors[i].address = ParamAddress(2)
          /\ descriptors[i].register_type = TYPE_COIL

(* C12: for every template, lines with a value that is no integer included,
   parsing runs to completion: no line raises out of the parser, and every
   paramId named by a well-formed line of the template has its descriptor. *)
C12_ParsingNeverAborts ==
    last.op = "construct" =>
        /\ last.err /= "ValueError"
        /\ \A p \in ParamIds : LinesNaming(p) /= {} => DescriptorsOf(p) /= {}

-----------------------------------------------------------------------------
(* Requests on a served slave, continued *)

(* C13: a validate, getValues or setValues request whose function code decodes
   to a register type without a block is rejected as out of range (validate
   returns false, or the request fails with an illegal-address error), for
   every address and count, and fails in no other way. *)
C13_NoBlockIsOutOfRange ==
    (/\ last.level = "slave"
     /\ last.op \in {"validate", "getValues", "setValues"}
     /\ last.pre.kind = "none") =>
        \/ last.op = "validate" /\ last.err = "" /\ ~last.ok
        \/ last.err = "IllegalAddress"

(* C14: a setValues(addr, v) and a getValues covering addr that overlap run
   one after the other, in either order, and once both have completed with no
   other writer of addr in between the block caches v at addr:
   the setValues completing last leaves v, and so does the getValues that
   completes right after the setValues. *)
C14_NoLostUpdate ==
    /\ (/\ last.op = "setValues" /\ last.err = "" /\ last.valid
        /\ Len(last.values) = 1 /\ last.mapping = <<>>) =>
           CachedValue(LastBlock, last.baddr) = last.values[1]
    /\ (/\ last.op = "getValues" /\ last.err = "" /\ last.valid
        /\ last.after /= <<>>
        /\ last.after[1] = last.key /\ last.after[2] \in LastRange) =>
           CachedValue(LastBlock, last.after[2]) = last.after[3]

(* The addresses of the remote updates the last request issued, in order *)
UpdateAddresses == [k \in DOMAIN last.calls |-> last.calls[k].address]

(* C15: when a remote update issued for setValues fails, setValues fails to
   its caller, the failed update is the last call it issued, and no address
   gets more than one update attempt in one setValues call. *)
C15_WriteFailureSurfaced ==
    last.op = "setValues" =>
        /\ last.failed > 0 => (last.err /= "" /\ last.failed = Len(last.calls))
        /\ \A i, j \in DOMAIN last.calls :
              (last.calls[i].op = "update" /\ last.calls[j].op = "update" /\ i /= j)
                  => UpdateAddresses[i] /= UpdateAddresses[j]

(* The second of two updates failed *)
C15_Witness ==
    /\ last.op = "setValues" /\ last.failed = 2 /\ Len(last.calls) = 2
    /\ last.err = "RemoteError"
    /\ UpdateAddresses[1] /= UpdateAddresses[2]

(* C16: get_timestamps(address, count) on a validated range returns exactly
   count entries, the k-th being the cached timestamp of address + k (none if
   never refreshed), issues no remote call and leaves the block unchanged. *)
C16_GetTimestamps ==
    (last.op = "getTimestamps" /\ last.valid) =>
        /\ last.err = ""
        /\ Len(last.result) = last.count
        /\ \A k \in DOMAIN last.result :
              last.result[k] = CachedTimestamp(last.pre, last.baddr + k - 1)
        /\ last.calls = <<>>
        /\ LastBlock = last.pre

(* A block's address domain: base and length, or the key set *)
BlockDomain(blk) ==
    IF blk.kind = "seq" THEN <<"seq", blk.address, Len(blk.values)>>
    ELSE IF blk.kind = "sparse" THEN <<"sparse", DOMAIN blk.values>>
    ELSE <<"none">>

(* C17: after construction no validate, getValues, setValues or reset call
   changes the slave's unit id, zero_mode, sparse flag, the register types
   that have a block or any block's address domain; reset changes nothing
   and does not fail. *)
C17_ImmutableAfterConstruction ==
    [][(pc = "serving" /\ last'.level = "slave") =>
          /\ slave_id' = slave_id /\ zero_mode' = zero_mode /\ sparse' = sparse
          /\ DOMAIN store' = DOMAIN store
          /\ \A key \in DOMAIN store : BlockDomain(store'[key]) = BlockDomain(store[key])
          /\ last'.op = "reset" =>
                (last'.err = "" /\ store' = store /\ remote' = remote)]_vars

-----------------------------------------------------------------------------
(* The slave contexts a server context holds *)

(* The rows whose template gives a networkId outside [1, 254] *)
RowsWithBadNetworkId ==
    { i \in DOMAIN config_rows :
        config_rows[i].config_file[1] = NetIdLine(MAX_SLAVE_ID + 1) }

(* C18: every slave context held by a server context has its unit id in
   [1, 254], whatever the row's unit id and the template's networkId are, and
   a networkId outside [1, 254] leaves the unit id as it was. *)
C18_UnitIdInRange ==
    (last.op = "initialize" /\ pc = "serving") =>
        /\ \A u \in DOMAIN server :
              server[u].slave_id \in MIN_SLAVE_ID..MAX_SLAVE_ID
        /\ \A i \in RowsWithBadNetworkId :
              SlaveContext(config_rows[i]).slave_id = config_rows[i].slave_id

-----------------------------------------------------------------------------
(* A request waiting for the remote store.  read_collection_data and
   write_collection_data call collection.getItems / updateItems and wait for
   the answer; the handler goes on when the answer comes. *)

(* getValues up to its collection.getItems(query) call *)
IssueGetValues(fx, address, count) ==
    LET key == Decode(fx)
        blk == store[key]
        baddr == Normalize(zero_mode, address)
    IN  /\ pc = "serving" /\ steps < MaxSteps
        /\ blk.kind /= "none"
        /\ pc' = "waiting"
        /\ last' = [NoRequest EXCEPT !.op = "getValues", !.level = "slave", !.fx = fx,
                        !.key = key, !.address = address, !.baddr = baddr,
                        !.count = count, !.pre = blk, !.after = JustSet,
                        !.valid = BlockValidate(blk, baddr, count),
                        !.calls = <<ReadQuery(TheCtx, blk.register_type, baddr, count)>>]
        /\ UNCHANGED <<zero_mode, sparse, slave_id, store, remote, steps,
                       config_file, descriptors, config_rows, server>>

(* setValues up to its first collection.updateItems(query, ...) call *)
IssueSetValues(fx, address, values) ==
    LET key == Decode(fx)
        blk == store[key]
        baddr == Normalize(zero_mode, address)
        r == BlockSetValues(blk, TheCtx, baddr, values)
    IN  /\ pc = "serving" /\ steps < MaxSteps
        /\ blk.kind /= "none"
        /\ r.calls /= <<>>
        /\ pc' = "waiting"
        /\ last' = [NoRequest EXCEPT !.op = "setValues", !.level = "slave", !.fx = fx,
                        !.key = key, !.address = address, !.baddr = baddr,
                        !.count = Len(values), !.values = values, !.pre = blk,
                        !.valid = BlockValidate(blk, baddr, Len(values)),
                        !.calls = <<r.calls[1]>>]
        /\ UNCHANGED <<zero_mode, sparse, slave_id, store, remote, steps,
                       config_file, descriptors, config_rows, server>>

(* The remote store answers and the waiting handler runs to its return *)
RemoteAnswers ==
    LET blk == store[last.key]
        g == BlockGetValues(blk, remote, TheCtx, last.baddr, last.count)
        w == BlockSetValues(blk, TheCtx, last.baddr, last.values)
    IN  /\ pc = "waiting"
        /\ pc' = "serving"
        /\ steps' = steps + 1
        /\ IF last.op = "getValues"
           THEN /\ last' = [last EXCEPT !.err = g.err, !.result = g.result,
                                        !.calls = g.calls]
                /\ store' = [store EXCEPT ![last.key] = g.block]
                /\ remote' = remote
           ELSE /\ last' = [last EXCEPT !.err = w.err, !.calls = w.calls]
                /\ store' = [store EXCEPT ![last.key] = w.block]
                /\ remote' = ApplyWrites(remote, w.calls)
        /\ UNCHANGED <<zero_mode, sparse, slave_id,
                       config_file, descriptors, config_rows, server>>

IssueRequest ==
    \/ \E fx \in FunctionCodes, a \in Addresses, n \in Counts : IssueGetValues(fx, a, n)
    \/ \E fx \in FunctionCodes, a \in Addresses, v \in ValueLists : IssueSetValues(fx, a, v)

NextWaiting ==
    \/ IssueRequest
    \/ RemoteAnswers

(* The handlers take their steps; nothing makes the remote store answer *)
SpecWaiting == Init /\ [][NextWaiting]_vars /\ WF_vars(IssueRequest)

(* C19: every getValues or setValues request eventually returns to its
   caller, with a result or a failure, even if the remote store never answers
   the call it is waiting for. *)
C19_EventuallyReturns == (pc = "waiting") ~> (pc = "serving")

-----------------------------------------------------------------------------
(* The template shift *)

(* C20: after parsing, every descriptor's internal address is its template
   address + 1 when the slave's zero_mode is false and its template address
   when zero_mode is true, wherever the network line stands among the
   register-definition lines. *)
C20_TemplateShiftAgrees ==
    Parsed =>
        \A p \in ParamIds :
            \A i \in DescriptorsOf(p) :
                descriptors[i].address /= NoAddress =>
                    descriptors[i].address = LastTemplateAddress(p) + Shift

-----------------------------------------------------------------------------
(* The layout of the blocks, continued *)

(* The descriptors that received a recognised registerType *)
TypedDescriptors ==
    SelectSeq(descriptors, LAMBDA reg : reg.register_type \in REGISTER_TYPES)

(* C21: each of the four blocks is built only from the descriptors whose
   register_type is the block's type: the store is the one the typed
   descriptors alone give, a descriptor without a recognised registerType is
   in no block, and a type without a descriptor has no block. *)
C21_BlocksByType ==
    (Parsed /\ pc = "serving") =>
        \A key \in StoreKeySet :
            /\ store[key] = SetupBlock(TypedDescriptors, sparse, key).block
            /\ (\A i \in DOMAIN descriptors :
                    descriptors[i].register_type /= KeyType(key))
                  => store[key].kind = "none"

(* The descriptors that received an address in [0, 99999] *)
AddressedDescriptors ==
    SelectSeq(descriptors, LAMBDA reg : reg.address /= NoAddress)

(* C22: a descriptor whose template address is outside [0, 99999] has no
   address and contributes nothing to any block: when every register line
   gives an integer address, construction ends as it does on the descriptors
   that have an address, with the same store, and every address of every
   block lies in [0, 99999]. *)
C22_OutOfRangeIgnored ==
    (/\ Parsed
     /\ \A k \in DOMAIN config_file :
           config_file[k].kind = TEMPLATE_PARSER_REGISTER_DEF =>
               \E j \in DOMAIN config_file[k].tokens :
                   /\ config_file[k].tokens[j].tag = TEMPLATE_PARSER_REG_ADDRESS
                   /\ ~config_file[k].tokens[j].bad) =>
        LET ref == BuildStore(AddressedDescriptors, sparse, EmptyStore, 1)
        IN  /\ last.err = ref.err
            /\ pc = "serving" =>
                  /\ store = ref.store
                  /\ \A key \in DOMAIN store :
                        /\ store[key].kind = "seq" =>
                              /\ store[key].address \in 0..MAX_ADDRESS
                              /\ store[key].address + Len(store[key].values)
                                    <= MAX_ADDRESS + 1
                        /\ store[key].kind = "sparse" =>
                              DOMAIN store[key].values \subseteq 0..MAX_ADDRESS

(* C29: for a non-sparse slave, every valid address named by a descriptor of
   a register type lies in the domain of that type's Sequential block, the
   minimum, the maximum and a sole address included: construction succeeds
   and validate(address, 1) holds on the block. *)
C29_EveryAddressInDomain ==
    (Parsed /\ ~sparse) =>
        \A key \in StoreKeySet :
            \A a \in ValidAddresses(KeyType(key)) :
                /\ pc = "serving"
                /\ key \in DOMAIN store
                /\ store[key].kind = "seq"
                /\ BlockValidate(store[key], a, 1)

-----------------------------------------------------------------------------
(* The unit ids of the server's table *)

(* C28: the unit id under which the server registers a slave context is the
   context's own unit id, for every combination of the row's unit id and the
   template's networkId, and no two contexts of the server have the same
   unit id. *)
C28_RegisteredUnitIsOwn ==
    (last.op = "initialize" /\ pc = "serving") =>
        /\ \A u \in DOMAIN server : server[u].slave_id = u
        /\ \A u, v \in DOMAIN server :
              server[u].slave_id = server[v].slave_id => u = v

-----------------------------------------------------------------------------
(* The blocks of a served slave, continued *)

(* C23: in every reachable state a Sequential block's timestamps list is as
   long as its values list, and a Sparse block's timestamps have the key set
   of its values. *)
C23_TimestampsAlignValues ==
    pc = "serving" =>
        \A key \in DOMAIN store :
            /\ store[key].kind = "seq" =>
                  Len(store[key].timestamps) = Len(store[key].values)
            /\ store[key].kind = "sparse" =>
                  DOMAIN store[key].timestamps = DOMAIN store[key].values

(* C30: for every range that validate accepts on an existing block,
   getValues, setValues and get_timestamps complete without an IndexError or
   a KeyError, whatever the block's base address, the start of the range and
   the rows the remote store returns. *)
C30_NoIndexErrorOnValidRange ==
    (/\ last.op \in {"getValues", "setValues", "getTimestamps"}
     /\ last.pre.kind /= "none"
     /\ last.valid) =>
        last.err \notin {"IndexError", "KeyError"}

(* C27: a validate, getValues or setValues request with a function code that
   decodes to register type T reads and modifies only the slave's block for
   T and issues remote queries and updates only with the slave's identity
   and type T; the other blocks, the remote rows of another identity or type
   and the server's unit-id table stay as they were. *)
C27_OnlyOwnBlockOfType ==
    [][(last'.level = "slave" /\ last'.op \in {"validate", "getValues", "setValues"}) =>
          LET T == IF last'.fx = 3 THEN TYPE_HOLDING_REGISTER ELSE TYPE_COIL
          IN  /\ \A key \in DOMAIN store :
                    KeyType(key) /= T => store'[key] = store[key]
              /\ (last'.pre.kind /= "none") =>
                    (last'.pre.register_type = T /\ last'.pre = store[last'.key])
              /\ \A k \in DOMAIN last'.calls :
                    /\ last'.calls[k].ip_address = IP_PROXY
                    /\ last'.calls[k].slave_id = slave_id
                    /\ last'.calls[k].register_type = T
              /\ \A r \in remote :
                    (\/ r.ip_address /= IP_PROXY
                     \/ r.slave_id /= slave_id
                     \/ r.register_type /= T) => r \in remote'
              /\ \A r \in remote' :
                    (\/ r.ip_address /= IP_PROXY
                     \/ r.slave_id /= slave_id
                     \/ r.register_type /= T) => r \in remote
              /\ server' = server /\ slave_id' = slave_id]_vars

(* A write to the coils of a slave that has a holding block as well: coil
   updates were issued, the coil block changed, the holding block is as
   built *)
C27_Witness ==
    /\ last.op = "setValues" /\ last.level = "slave" /\ last.fx = 1
    /\ last.err = "" /\ last.calls /= <<>>
    /\ \A k \in DOMAIN last.calls : last.calls[k].register_type = TYPE_COIL
    /\ store["c"] /= last.pre
    /\ store["h"].kind /= "none"
    /\ store["h"] = _parse_config(ServedUnit, config_file).store["h"]

-----------------------------------------------------------------------------
(* The bridge called on its own: read_collection_data and
   write_collection_data against a data collection holding rows of the
   slave and rows of other proxies, units and register types. *)

InitBridge ==
    /\ sparse \in BOOLEAN
    /\ \E present \in SUBSET (0..(MaxAddr + 1)), foreign \in {{}, ForeignRows} :
           remote = SeedRows(present) \cup foreign
    /\ slave_id = ServedUnit
    /\ zero_mode = TRUE
    /\ store = EmptyStore
    /\ descriptors = <<>>
    /\ config_file = <<>>
    /\ config_rows = <<>>
    /\ server = <<>>
    /\ last = NoRequest
    /\ steps = 0
    /\ pc = "bridge"

(* values, timestamps = read_collection_data(context, register_type, address,
   count, fill); last.values keeps fill (<<>> for None), last.after the
   timestamps *)
BridgeRead(register_type, address, count, fill) ==
    LET r == read_collection_data(remote, TheCtx, register_type, address, count, fill)
    IN  /\ pc = "bridge" /\ steps < MaxSteps
        /\ steps' = steps + 1
        /\ last' = [NoRequest EXCEPT !.op = "read", !.level = "bridge",
                        !.key = register_type, !.baddr = address, !.count = count,
                        !.values = fill, !.err = r.err, !.result = r.values,
                        !.after = r.timestamps, !.calls = <<r.query>>]
        /\ UNCHANGED <<zero_mode, sparse, slave_id, store, remote,
                       pc, config_file, descriptors, config_rows, server>>

(* write_collection_data(context, register_type, address, data) *)
BridgeWrite(register_type, address, data) ==
    /\ pc = "bridge" /\ steps < MaxSteps
    /\ steps' = steps + 1
    /\ remote' = write_collection_data(remote, TheCtx, register_type, address, data)
    /\ last' = [NoRequest EXCEPT !.op = "write", !.level = "bridge",
                    !.key = register_type, !.baddr = address, !.count = 1,
                    !.values = <<data>>,
                    !.calls = <<WriteQuery(TheCtx, register_type, address, data)>>]
    /\ UNCHANGED <<zero_mode, sparse, slave_id, store,
                   pc, config_file, descriptors, config_rows, server>>

NextBridge ==
    \/ \E t \in {TYPE_HOLDING_REGISTER, TYPE_INPUT_REGISTER}, a \in 0..(MaxAddr + 1),
          n \in Counts, fill \in {<<>>, <<FILL_VALUE>>} : BridgeRead(t, a, n, fill)
    \/ \E t \in {TYPE_HOLDING_REGISTER, TYPE_INPUT_REGISTER}, a \in 0..(MaxAddr + 1),
          v \in Data : BridgeWrite(t, a, v)

SpecBridge == InitBridge /\ [][NextBridge]_vars

(* The rows of the last bridge call's slave, register type and address range *)
RowsInRange ==
    { r \in remote :
        /\ r.ip_address = IP_PROXY /\ r.slave_id = slave_id
        /\ r.register_type = last.key
        /\ r.register_address \in last.baddr..(last.baddr + last.count - 1) }

(* C24: a bridge read with count >= 1 considers exactly the rows whose proxy
   identity, unit id and register type are the slave's and the request's and
   whose address lies in [address, address + count), in ascending address
   order: its outcome is the one the read has on those rows alone, a sparse
   read returns their data and timestamps by address, and a non-sparse read
   that succeeds over a fully populated range returns them in address order. *)
C24_ReadConsidersMatchingRows ==
    (last.op = "read" /\ last.count >= 1) =>
        LET alone == read_collection_data(RowsInRange, TheCtx, last.key, last.baddr,
                                          last.count, last.values)
            addrs == { r.register_address : r \in RowsInRange }
            rowAt(a) == CHOOSE r \in RowsInRange : r.register_address = a
        IN  /\ last.err = alone.err
            /\ last.result = alone.values
            /\ last.after = alone.timestamps
            /\ sparse =>
                  /\ DOMAIN last.result = addrs
                  /\ \A a \in addrs :
                        /\ last.result[a] = rowAt(a).register_data
                        /\ last.after[a] = rowAt(a).timestamp
            /\ (~sparse /\ last.err = ""
                  /\ addrs = last.baddr..(last.baddr + last.count - 1)) =>
                  /\ Len(last.result) = last.count
                  /\ \A k \in 1..last.count :
                        last.result[k] = rowAt(last.baddr + k - 1).register_data

(* A read of two addresses that both have a row, with rows of another proxy,
   another unit and another type inside the range and a row of the slave
   outside it *)
C24_Witness ==
    /\ last.op = "read" /\ last.err = "" /\ ~sparse
    /\ last.key = TYPE_HOLDING_REGISTER /\ last.baddr = 0 /\ last.count = 2
    /\ last.result = <<3, 4>>
    /\ ForeignRows \subseteq remote
    /\ \E r \in remote \ ForeignRows : r.register_address = 2

(* C25: a bridge write sets the data of the row whose slave identity,
   register type and address are the slave's and the request's, and leaves
   every other row of the collection as it was. *)
C25_WriteChangesMatchingRow ==
    [][(last'.op = "write" /\ last'.level = "bridge") =>
          remote' = { IF /\ r.ip_address = IP_PROXY /\ r.slave_id = slave_id
                         /\ r.register_type = last'.key
                         /\ r.register_address = last'.baddr
                      THEN [r EXCEPT !.register_data = last'.values[1]]
                      ELSE r : r \in remote }]_vars

(* The slave's row at address 1 holds the written value; the rows of the
   other proxy, unit and type at address 1 and the slave's row at address 2
   hold what they held *)
C25_Witness ==
    /\ last.op = "write" /\ last.level = "bridge"
    /\ last.key = TYPE_HOLDING_REGISTER /\ last.baddr = 1
    /\ Row(IP_PROXY, slave_id, TYPE_HOLDING_REGISTER, 1, last.values[1], 1) \in remote
    /\ ForeignRows \subseteq remote
    /\ SeedRows({2}) \subseteq remote

(* C26: a non-sparse bridge read with fill = None fails with the
   data-integrity error whenever some address of the range has no row, and
   returns the rows' values and timestamps in address order when every
   address of the range has a row. *)
C26_NoFillRead ==
    (last.op = "read" /\ ~sparse /\ last.values = <<>>) =>
        LET addrs == { r.register_address : r \in RowsInRange }
            rowAt(a) == CHOOSE r \in RowsInRange : r.register_address = a
        IN  IF addrs = last.baddr..(last.baddr + last.count - 1)
            THEN /\ last.err = ""
                 /\ last.result = [k \in 1..last.count |->
                                      rowAt(last.baddr + k - 1).register_data]
                 /\ last.after = [k \in 1..last.count |->
                                     rowAt(last.baddr + k - 1).timestamp]
            ELSE last.err = "ParameterException"

-----------------------------------------------------------------------------
(* Failures of the remote store *)

(* C31: after any setValues call, successful or failed, every address whose
   cached value the call changed is an address whose remote update succeeded
   with that same value; a failed update leaves no unwritten value in the
   block's cache. *)
C31_CacheFollowsRemote ==
    (last.op = "setValues" /\ last.level = "slave" /\ last.pre.kind /= "none") =>
        LET done == IF last.failed > 0
                    THEN SubSeq(last.calls, 1, last.failed - 1)
                    ELSE last.calls
        IN  \A a \in AllAddresses :
                (/\ InDomain(LastBlock, a)
                 /\ InDomain(last.pre, a) =>
                       CachedValue(LastBlock, a) /= CachedValue(last.pre, a)) =>
                    \E k \in DOMAIN done :
                        /\ done[k].op = "update"
                        /\ done[k].address = a
                        /\ done[k].data = CachedValue(LastBlock, a)

(* C32: when the bridge read invoked by getValues fails, with an error of
   the remote store or an error raised while the rows are put in order,
   getValues fails towards its caller, returns no values, and the block's
   cached values and timestamps are exactly what they were before the call. *)
C32_FailedReadLeavesCache ==
    (/\ last.op = "getValues" /\ last.level = "slave" /\ last.pre.kind /= "none"
     /\ \/ last.failed > 0
        \/ read_collection_data(remote, TheCtx, last.pre.register_type, last.baddr,
                                last.count, DefaultFill).err /= "") =>
        /\ last.err /= ""
        /\ last.result = <<>>
        /\ LastBlock = last.pre

(* A getValues whose read failed on a block that holds a value written by
   the request before it *)
C32_Witness ==
    /\ last.op = "getValues" /\ last.level = "slave" /\ last.err /= ""
    /\ \/ last.failed > 0
       \/ read_collection_data(remote, TheCtx, last.pre.register_type, last.baddr,
                               last.count, DefaultFill).err /= ""
    /\ \E a \in LastRange :
          InDomain(last.pre, a) /\ CachedValue(last.pre, a) /= 0
    /\ LastBlock = last.pre

====
